---- MODULE Spec2Model ----
(***************************************************************************)
(* lemlib::MotorGroup (src/src/hardware/Motors/MotorGroup.cpp) over the    *)
(* single-motor driver declared in include/hardware/Motors/Motor.hpp.      *)
(*                                                                         *)
(* The group's state is m_motors (ordered pairs <port, was-connected>) and *)
(* m_outputVelocity.  The hardware is one device per smart port: what is   *)
(* plugged into it (nothing, or a motor with a cartridge reading).  Every  *)
(* public operation of the group is one action; the caller alternates      *)
(* between issuing a call and taking its result (Return), and the outcome  *)
(* of the call just made is kept in `last`.                                *)
(*                                                                         *)
(* Angles, velocities and gear ratios are exact rationals <<n, d>> in      *)
(* lowest terms; <<1, 0>> is +INFINITY, <<-1, 0>> -INFINITY, <<0, 0>> NaN  *)
(* (what a floating-point division by zero yields).                        *)
(***************************************************************************)
EXTENDS Integers, Sequences, FiniteSets, TLC

\* ---------------------------------------------------------------- bounds
\* Longest membership list explored (constructor list or after addMotor).
MaxMotors == 2

\* Smart ports with a device slot in the model.
Ports == {1, 2}

\* Port arguments handed to the constructor, addMotor and removeMotor:
\* both signs of a port, and one value outside int8_t (257 wraps to 1).
PortArgs == {1, -1, 2, 257}

\* Ports the constructor may be given (pros::Motor holds an int8_t port).
CtorPorts == {1, -1, 2}

\* Register readings the shafts may show when a call starts (degrees).
AngleVals == {10, 40}

\* Arguments of the group commands.
OutputVelocities == {100}
VelocityArgs == {60}
AngleArgs == {30}

\* ------------------------------------------------------------- constants
INT_MAX == 2147483647

\* enum class Cartridge { RED = 100, GREEN = 200, BLUE = 600, INVALID }
RED == 100
GREEN == 200
CartINVALID == 601

\* What a port's device slot can hold: nothing, or a motor whose cartridge
\* reads as a rating or cannot be determined.  Two of the three ratings
\* (BLUE = 600 is left out) give members of equal and of different gearing.
NoDevice == 0

DeviceStates == {NoDevice, RED, GREEN, CartINVALID}

\* ------------------------------------------------------------- rationals
Abs(x) == IF x < 0 THEN -x ELSE x

Sign(x) == IF x < 0 THEN -1 ELSE IF x > 0 THEN 1 ELSE 0

RECURSIVE GCD(_, _)
GCD(a, b) == IF b = 0 THEN a ELSE GCD(b, a % b)

\* n/d in lowest terms with a positive denominator; x/0 is an infinity or NaN.
Norm(n, d) ==
    IF d = 0 THEN <<Sign(n), 0>>
    ELSE LET g == GCD(Abs(n), Abs(d))
         IN  <<(Sign(d) * n) \div g, Abs(d) \div g>>

FromInt(n) == <<n, 1>>

RMul(a, b) == Norm(a[1] * b[1], a[2] * b[2])

RAdd(a, b) ==
    IF a[2] = 0 \/ b[2] = 0
    THEN (IF a[2] = 0 /\ b[2] = 0 /\ a[1] # b[1] THEN <<0, 0>>
          ELSE IF a[2] = 0 THEN a ELSE b)
    ELSE Norm(a[1] * b[2] + b[1] * a[2], a[2] * b[2])

\* a / b for rationals a, b
RDiv(a, b) == Norm(a[1] * b[2], a[2] * b[1])

INFINITY == <<1, 0>>

Zero == <<0, 1>>

\* Body applied to the value of v, which is computed once.
With(v, Body(_)) == CHOOSE r \in {Body(x) : x \in {v}} : TRUE

\* static_cast<std::int8_t>(int): two's complement wrap-around
ToInt8(x) == ((x + 128) % 256) - 128

\* ------------------------------------------------------------------ state
VARIABLES
    m_motors,          \* std::vector<std::pair<int8_t, bool>>: <<port, was connected>>
    m_outputVelocity,  \* rpm of the common output shaft, fixed at construction
    device,            \* per smart port: NoDevice, or the cartridge reading of its motor
    pc,                \* "idle": the caller may call; "returned": a result is pending
    last               \* the call just made: its inputs, what it did, what it returned

vars == <<m_motors, m_outputVelocity, device, pc, last>>

Pair(port, flag) == [first |-> port, second |-> flag]

\* ------------------------------------------------- the single-motor driver
\* Physical port addressed by pros::Motor(port): the port is held as int8_t
\* and its sign only encodes reversal.
DevPort(port) == Abs(ToInt8(port))

\* pros::Motor::is_installed
is_installed(dev, d) == d \in DOMAIN dev /\ dev[d] # NoDevice

\* Motor::getCartridge: the cartridge, INVALID when the port holds no motor
Motor_getCartridge(dev, d) == IF is_installed(dev, d) THEN dev[d] ELSE CartINVALID

\* Motor::getAngle: the register, INFINITY when the port holds no motor
Motor_getAngle(dev, regs, d) == IF is_installed(dev, d) THEN regs[d] ELSE INFINITY

\* Motor::isConnected
Motor_isConnected(dev, d) == IF is_installed(dev, d) THEN 1 ELSE 0

\* Motor::getBrakeMode reports a mode other than INVALID
Motor_hasBrakeMode(dev, d) == is_installed(dev, d)

\* Motor::move / moveVelocity / brake / setBrakeMode / setAngle:
\* 0 on success, INT_MAX when the port holds no motor (ENODEV)
Motor_command(dev, d) == IF is_installed(dev, d) THEN 0 ELSE INT_MAX

\* Mutant: the ratio upside down
InverseMemberRatio(cart, O) == Norm(O, cart)

\* from_rpm(static_cast<int>(cartridge)) / m_outputVelocity
MemberRatio(cart, O) == Norm(cart, O)

\* Mutant: the reading is taken as it is
UnitRatio(cart, O) == Norm(1, 1)

\* m_outputVelocity / from_rpm(static_cast<int>(cartridge))
OutputRatio(cart, O) == Norm(O, cart)

\* ---------------------------------------------------------- configureMotor
\* Lines 210-219: the loop over m_motors that looks for a brake mode.  The
\* motor it builds is pros::Motor(pair.second): port 1 for a member flagged
\* connected, port 0 (never a motor) otherwise; the mode read from that
\* motor is written back to that same motor.  writeFails: the driver
\* rejects that write.  The result is the value of `success` after the
\* loop, with the ports whose mode was read as valid (from) and on which
\* setBrakeMode was called (to).
RECURSIVE BrakeModeLoop(_, _, _, _)
BrakeModeLoop(i, mm, dev, writeFails) ==
    IF i > Len(mm) THEN [success |-> TRUE, from |-> <<>>, to |-> <<>>]
    ELSE LET m == IF mm[i].second THEN 1 ELSE 0
         IN  IF ~Motor_hasBrakeMode(dev, m) THEN BrakeModeLoop(i + 1, mm, dev, writeFails)
             ELSE IF Motor_command(dev, m) = 0 /\ ~writeFails
             THEN [success |-> TRUE, from |-> <<m>>, to |-> <<m>>]
             ELSE [success |-> FALSE, from |-> <<m>>, to |-> <<m>>]

\* Lines 227-237: the connected members other than the one being configured
IsPeer(pair, port, dev) ==
    /\ Abs(pair.first) # Abs(port)
    /\ is_installed(dev, DevPort(pair.first))

ConfigPeers(port, mm, dev) == SelectSeq(mm, LAMBDA pair : IsPeer(pair, port, dev))

\* Lines 240-256: sum of the peers' angles and the count of peers in error
RECURSIVE PeerSum(_, _, _, _)
PeerSum(i, peers, dev, regs) ==
    IF i > Len(peers) THEN [tempAngle |-> Zero, errors |-> 0]
    ELSE LET d == DevPort(peers[i].first)
             rest == PeerSum(i + 1, peers, dev, regs)
             result == Motor_getAngle(dev, regs, d)
         IN  IF result = INFINITY \/ Motor_getCartridge(dev, d) = CartINVALID
             THEN [rest EXCEPT !.errors = @ + 1]
             ELSE [rest EXCEPT !.tempAngle = RAdd(result, @)]

\* Line 258: the angle the configured motor is set to
ConfigAngle(port, mm, dev, regs) ==
    LET peers == ConfigPeers(port, mm, dev)
        s == PeerSum(1, peers, dev, regs)
    IN  IF Len(peers) # s.errors
        THEN RDiv(s.tempAngle, FromInt(Len(peers) - s.errors))
        ELSE Zero

\* Mutant: the function returns success instead of !success
ConfigReturnNotNegated(success, result) ==
    IF result = INT_MAX THEN 0 ELSE IF success THEN 1 ELSE 0

\* Lines 261-264: the value returned.  `return success = false` converts
\* false to the int 0; `return !success` is 0 or 1.
ConfigReturn(success, result) ==
    IF result = INT_MAX THEN 0
    ELSE IF success THEN 0 ELSE 1

\* Line 262: motor.setAngle(angle) on the configured motor; rejected when the
\* port holds no motor, or held one at the probe and lost it since.
ConfigSetAngle(dev, d, writeFails) ==
    IF d \in writeFails.angle THEN INT_MAX ELSE Motor_command(dev, d)

\* Mutant: the loop over the peers stores what each probe found
ProbePeersFlagging(port, mm, dev) ==
    [k \in 1..Len(mm) |->
        IF Abs(mm[k].first) = Abs(port) THEN mm[k]
        ELSE Pair(mm[k].first, is_installed(dev, DevPort(mm[k].first)))]

\* Lines 227-237: m_motors after the loop that probes every tracked member.
\* The loop takes each pair by reference (`auto& pair`) and only reads it.
ProbePeers(port, mm, dev) == mm

\* configureMotor(port) as a whole: the value returned, m_motors and the
\* registers after it, and a record of what it did.  writeFails names the driver writes of
\* this call that are rejected although the port held a motor when probed:
\* brake (the setBrakeMode of the loop), angle (the ports whose motor is
\* unplugged before the final setAngle reaches it).
configureMotor(port, mm, dev, regs, writeFails) ==
    LET d == DevPort(port)
        cartridge == Motor_getCartridge(dev, d)
        angle == ConfigAngle(port, mm, dev, regs)
        result == ConfigSetAngle(dev, d, writeFails)
        Finish(b) ==
            LET success == b.success /\ cartridge # CartINVALID
                ret == ConfigReturn(success, result)
            IN  [ret |-> ret,
                 mm |-> ProbePeers(port, mm, dev),
                 regs |-> IF result = 0 THEN [regs EXCEPT ![d] = angle] ELSE regs,
                 log |-> [idx |-> 0, port |-> port, ret |-> ret, brakeOk |-> b.success,
                          brakeFrom |-> b.from, brakeTo |-> b.to,
                          cartridge |-> cartridge, angle |-> angle, result |-> result,
                          regsAt |-> regs,
                          flagsAt |-> [k \in 1..Len(mm) |-> mm[k].second],
                          mmAt |-> mm, mmAfter |-> ProbePeers(port, mm, dev)]]
    IN  With(BrakeModeLoop(1, mm, dev, writeFails.brake), Finish)

\* --------------------------------------------------------------- getMotors
\* Mutant: the member is flagged connected whatever configureMotor returned
AfterConfigureFlagged(st, i, c) ==
    LET st0 == [st EXCEPT !.mm = c.mm, !.regs = c.regs,
                          !.cfg = Append(@, [c.log EXCEPT !.idx = i])]
        st1 == [st0 EXCEPT !.mm[i].second = TRUE]
    IN  IF c.ret # 0
        THEN st1
        ELSE [st1 EXCEPT !.motors = Append(@, st.mm[i].first)]

\* Lines 189-192, for the member at index i found connected while flagged
\* disconnected, c being what configureMotor returned: the call is logged;
\* unless it returned non-zero, the member is flagged connected and joins
\* the working set.
AfterConfigure(st, i, c) ==
    LET st1 == [st EXCEPT !.mm = c.mm, !.regs = c.regs,
                          !.cfg = Append(@, [c.log EXCEPT !.idx = i])]
    IN  IF c.ret # 0
        THEN st1
        ELSE [st1 EXCEPT !.mm[i].second = TRUE,
                         !.motors = Append(@, st.mm[i].first)]

\* m_motors.erase(it): the elements after it move down one place
Erase(mm, it) == [k \in 1..(Len(mm) - 1) |-> IF k < it THEN mm[k] ELSE mm[k + 1]]

\* Mutant: a member that is not connected is dropped from the list
ForgetDisconnected(st, i) == [st EXCEPT !.mm = Erase(@, i)]

\* Lines 182-185: a member that is not connected is flagged disconnected
\* and skipped; its entry stays where it is.
MarkDisconnected(st, i) == [st EXCEPT !.mm[i].second = FALSE]

\* Lines 175-195.  st carries m_motors (flags are written in place), the
\* registers, the working set built so far and the configureMotor calls made.
RECURSIVE getMotorsFrom(_, _, _, _)
getMotorsFrom(i, st, dev, writeFails) ==
    IF i > Len(st.mm) THEN st
    ELSE LET pair == st.mm[i]
             connected == is_installed(dev, DevPort(pair.first))
             Continue(next) == getMotorsFrom(i + 1, next, dev, writeFails)
             Configured(c) == With(AfterConfigure(st, i, c), Continue)
         IN  IF ~connected
             THEN With(MarkDisconnected(st, i), Continue)
             ELSE IF pair.second = FALSE
             THEN With(configureMotor(pair.first, st.mm, dev, st.regs, writeFails),
                       Configured)
             ELSE With([st EXCEPT !.motors = Append(@, pair.first)], Continue)

getMotors(mm, dev, regs, writeFails) ==
    getMotorsFrom(1, [mm |-> mm, regs |-> regs, motors |-> <<>>, cfg |-> <<>>],
                  dev, writeFails)

\* ------------------------------------------------- the calls' environment
NoDevices == [p \in Ports |-> NoDevice]

ZeroRegs == [p \in Ports |-> Zero]

\* A tracked member flagged disconnected whose port now holds a motor
OnReconnectionEdge(mm, dev) ==
    \E i \in 1..Len(mm) : ~mm[i].second /\ is_installed(dev, DevPort(mm[i].first))

\* The ports that hold a motor
Installed(dev) == {p \in Ports : is_installed(dev, p)}

\* The members getMotors may reconfigure on hardware dev: flagged
\* disconnected, or absent at an earlier probe (was) of the same call.
MayConfigure(mm, was, dev) ==
    {k \in 1..Len(mm) :
        /\ is_installed(dev, DevPort(mm[k].first))
        /\ ~mm[k].second \/ ~is_installed(was, DevPort(mm[k].first))}

\* The registers configureMotor reads when getMotors reconfigures a member:
\* those of the connected tracked members on another port.
PeerReads(mm, was, dev) ==
    {p \in Installed(dev) :
        /\ \E k \in 1..Len(mm) : DevPort(mm[k].first) = p
        /\ \E i \in MayConfigure(mm, was, dev) : DevPort(mm[i].first) # p}

\* Register contents when a call starts: the motors read different angles.
\* Only configureMotor, getAngle and setAngle touch the registers; a
\* register the call cannot reach is explored for one content.
RegInputs(ports) ==
    {[p \in Ports |-> IF p \in ports THEN FromInt(f[p]) ELSE Zero] :
        f \in {g \in [Ports -> AngleVals] : \A p, q \in Ports : p # q => g[p] # g[q]}}

\* Which driver writes of configureMotor are rejected during the call: the
\* setBrakeMode of the brake loop (when the call can reach it), and the
\* setAngle on each of the given ports.
WriteInputs(brake, ports) ==
    {[brake |-> b, angle |-> a] :
        b \in (IF brake THEN BOOLEAN ELSE {FALSE}), a \in SUBSET ports}

\* The rejected writes of one getMotors pass on hardware dev.  The brake
\* loop only ever addresses port 1, so its write is reachable when port 1
\* holds a motor; a setAngle is rejected when the member's motor, connected
\* at the probe, is unplugged by the time the call's loop runs (later).
ConfigureWrites(mm, was, dev, later) ==
    WriteInputs(MayConfigure(mm, was, dev) # {} /\ is_installed(dev, 1),
                {DevPort(mm[i].first) : i \in MayConfigure(mm, was, dev)}
                    \ Installed(later))

\* The ports the group's members are on
Tracked(mm) == {DevPort(mm[i].first) : i \in 1..Len(mm)}

\* The hardware a moment later: motors on the given ports may have been
\* unplugged meanwhile.  (A call only addresses its members' ports; what
\* happens on the other ports is left to the steps between calls.)
Drops(dev, ports) ==
    {d \in [Ports -> DeviceStates] :
        \A p \in Ports : d[p] = dev[p] \/ (p \in ports /\ d[p] = NoDevice)}

\* The hardware a moment later: at most one motor on the given ports was
\* unplugged or plugged in.
OneChange(dev, ports) ==
    {d \in [Ports -> DeviceStates] :
        /\ Cardinality({p \in Ports : d[p] # dev[p]}) <= 1
        /\ \A p \in Ports :
              d[p] = dev[p] \/ (p \in ports /\ (d[p] = NoDevice \/ dev[p] = NoDevice))}

NoCall ==
    [op |-> "none", port |-> 0, val |-> Zero, pre |-> <<>>,
     dev0 |-> NoDevices, regs0 |-> ZeroRegs, writeFails |-> [brake |-> FALSE, angle |-> {}],
     devLoop |-> NoDevices, devCart |-> NoDevices, motors |-> <<>>, cfg |-> <<>>, sent |-> <<>>,
     ret |-> 0, angle |-> Zero, errno |-> "", errors |-> 0, steps |-> 0, divided |-> FALSE,
     size |-> 0, devSize |-> NoDevices, cfg2 |-> <<>>, regsLoop |-> ZeroRegs,
     regs |-> ZeroRegs]

\* The fields every aggregation call fills in.
Started(op, g, regs0, wf, dev1) ==
    [NoCall EXCEPT !.op = op, !.pre = m_motors, !.dev0 = device, !.regs0 = regs0,
                   !.writeFails = wf, !.devLoop = dev1, !.motors = g.motors,
                   !.cfg = g.cfg, !.regsLoop = g.regs, !.regs = g.regs]

\* `success ? 0 : INT_MAX`
SuccessOrIntMax(success) == IF success THEN 0 ELSE INT_MAX

\* The loop of move / brake / setBrakeMode: one driver command per member of
\* the working set, in order.
BroadcastLoop(motors, dev) ==
    [k \in 1..Len(motors) |->
        [port |-> motors[k], val |-> Zero, res |-> Motor_command(dev, DevPort(motors[k]))]]

\* Mutant: success only when every member's command returned 0
AllSucceeded(sent) == sent # <<>> /\ \A k \in 1..Len(sent) : sent[k].res = 0

\* success is set by any member whose command returned 0
AnySucceeded(sent) == \E k \in 1..Len(sent) : sent[k].res = 0

\* move, brake and setBrakeMode share one shape (lines 17-26, 46-55, 57-66).
Broadcast(op) ==
    /\ pc = "idle"
    /\ \E regs0 \in RegInputs(PeerReads(m_motors, device, device)),
          dev1 \in Drops(device, Tracked(m_motors)) :
          \E wf \in ConfigureWrites(m_motors, device, device, dev1) :
          \E g \in {getMotors(m_motors, device, regs0, wf)} :
          \E sent \in {BroadcastLoop(g.motors, dev1)} :
              /\ m_motors' = g.mm
              /\ device' = dev1
              /\ last' = [Started(op, g, regs0, wf, dev1) EXCEPT
                              !.sent = sent,
                              !.ret = SuccessOrIntMax(AnySucceeded(sent))]
    /\ pc' = "returned"
    /\ UNCHANGED m_outputVelocity

move == Broadcast("move")

brake == Broadcast("brake")

setBrakeMode == Broadcast("setBrakeMode")

\* ------------------------------------------------- moveVelocity / setAngle
\* The hardware as the loop's cartridge reads see it: a motor of the
\* working set that is unplugged while the loop runs is read before or
\* after it goes.
CartridgeReads(dev0, dev1, motors) ==
    {d \in [Ports -> DeviceStates] :
        \A p \in Ports :
            \/ d[p] = dev1[p]
            \/ /\ d[p] = dev0[p]
               /\ Motor_getCartridge(dev0, p) # CartINVALID
               /\ \E k \in 1..Len(motors) : DevPort(motors[k]) = p}

\* Mutant: members are commanded whatever their cartridge reads
RECURSIVE ScaledLoopUnchecked(_, _, _, _, _, _)
ScaledLoopUnchecked(k, motors, devCart, dev, value, O) ==
    IF k > Len(motors) THEN <<>>
    ELSE <<[port |-> motors[k],
            val |-> RMul(value,
                         MemberRatio(Motor_getCartridge(devCart, DevPort(motors[k])), O)),
            res |-> Motor_command(dev, DevPort(motors[k]))]>>
         \o ScaledLoopUnchecked(k + 1, motors, devCart, dev, value, O)

\* Lines 31-41 and 116-126: members whose cartridge reads INVALID are
\* skipped; the others are sent value * (from_rpm(cartridge) / m_outputVelocity).
\* devCart: the hardware at the cartridge reads, dev: at the commands.
RECURSIVE ScaledLoop(_, _, _, _, _, _)
ScaledLoop(k, motors, devCart, dev, value, O) ==
    IF k > Len(motors) THEN <<>>
    ELSE LET d == DevPort(motors[k])
             cartridge == Motor_getCartridge(devCart, d)
             rest == ScaledLoop(k + 1, motors, devCart, dev, value, O)
         IN  IF cartridge = CartINVALID THEN rest
             ELSE <<[port |-> motors[k],
                     val |-> RMul(value, MemberRatio(cartridge, O)),
                     res |-> Motor_command(dev, d)]>> \o rest

\* Lines 28-44
moveVelocity ==
    /\ pc = "idle"
    /\ \E regs0 \in RegInputs(PeerReads(m_motors, device, device)),
          dev1 \in Drops(device, Tracked(m_motors)), v \in VelocityArgs :
          \E wf \in ConfigureWrites(m_motors, device, device, dev1) :
          \E g \in {getMotors(m_motors, device, regs0, wf)} :
          \E devCart \in CartridgeReads(device, dev1, g.motors) :
          \E sent \in {ScaledLoop(1, g.motors, devCart, dev1, FromInt(v),
                                  m_outputVelocity)} :
              /\ m_motors' = g.mm
              /\ device' = dev1
              /\ last' = [Started("moveVelocity", g, regs0, wf, dev1) EXCEPT
                              !.val = FromInt(v),
                              !.devCart = devCart,
                              !.sent = sent,
                              !.ret = SuccessOrIntMax(AnySucceeded(sent))]
    /\ pc' = "returned"
    /\ UNCHANGED m_outputVelocity

\* The registers after the accepted setAngle commands, in order.
RECURSIVE WriteRegs(_, _, _)
WriteRegs(k, sent, regs) ==
    IF k > Len(sent) THEN regs
    ELSE WriteRegs(k + 1, sent,
                   IF sent[k].res = 0
                   THEN [regs EXCEPT ![DevPort(sent[k].port)] = sent[k].val]
                   ELSE regs)

\* Lines 113-129
setAngle ==
    /\ pc = "idle"
    /\ \E regs0 \in RegInputs(Installed(device) \cap Tracked(m_motors)),
          dev1 \in Drops(device, Tracked(m_motors)), a \in AngleArgs :
          \E wf \in ConfigureWrites(m_motors, device, device, dev1) :
          \E g \in {getMotors(m_motors, device, regs0, wf)} :
          \E devCart \in CartridgeReads(device, dev1, g.motors) :
          \E sent \in {ScaledLoop(1, g.motors, devCart, dev1, FromInt(a),
                                  m_outputVelocity)} :
              /\ m_motors' = g.mm
              /\ device' = dev1
              /\ last' = [Started("setAngle", g, regs0, wf, dev1) EXCEPT
                              !.val = FromInt(a),
                              !.devCart = devCart,
                              !.sent = sent,
                              !.ret = SuccessOrIntMax(AnySucceeded(sent)),
                              !.regs = WriteRegs(1, sent, g.regs)]
    /\ pc' = "returned"
    /\ UNCHANGED m_outputVelocity

\* ------------------------------------------------------------------ getSize
\* Mutant: every member of the working set is counted
SizeLoopAll(motors, dev) == Len(motors)

\* Lines 133-136: the members of the working set that report connected
SizeLoop(motors, dev) ==
    Cardinality({k \in 1..Len(motors) : Motor_isConnected(dev, DevPort(motors[k])) # 0})

\* Lines 131-137
getSize ==
    /\ pc = "idle"
    /\ \E regs0 \in RegInputs(PeerReads(m_motors, device, device)),
          dev1 \in Drops(device, Tracked(m_motors)) :
          \E wf \in ConfigureWrites(m_motors, device, device, dev1) :
          \E g \in {getMotors(m_motors, device, regs0, wf)} :
              /\ m_motors' = g.mm
              /\ device' = dev1
              /\ last' = [Started("getSize", g, regs0, wf, dev1) EXCEPT
                              !.ret = SizeLoop(g.motors, dev1)]
    /\ pc' = "returned"
    /\ UNCHANGED m_outputVelocity

\* ------------------------------------------------------------- isConnected
\* Mutant: every member of the working set has to report connected
AllConnected(motors, dev) ==
    /\ motors # <<>>
    /\ \A k \in 1..Len(motors) : Motor_isConnected(dev, DevPort(motors[k])) = 1

\* Lines 77-80: some member of the working set reports connected
AnyConnected(motors, dev) ==
    \E k \in 1..Len(motors) : Motor_isConnected(dev, DevPort(motors[k])) = 1

\* Lines 75-83: 1 as soon as a member of the working set reports connected
isConnected ==
    /\ pc = "idle"
    /\ \E regs0 \in RegInputs(PeerReads(m_motors, device, device)),
          dev1 \in Drops(device, Tracked(m_motors)) :
          \E wf \in ConfigureWrites(m_motors, device, device, dev1) :
          \E g \in {getMotors(m_motors, device, regs0, wf)} :
          LET found == AnyConnected(g.motors, dev1)
          IN  /\ m_motors' = g.mm
              /\ device' = dev1
              /\ last' = [Started("isConnected", g, regs0, wf, dev1) EXCEPT
                              !.ret = IF found THEN 1 ELSE 0]
    /\ pc' = "returned"
    /\ UNCHANGED m_outputVelocity

\* ----------------------------------------------------------- getBrakeModes
\* Lines 68-73: one mode per member of the working set; `sent` keeps, per
\* member, whether the mode read was valid (res = 0) or INVALID.
getBrakeModes ==
    /\ pc = "idle"
    /\ \E regs0 \in RegInputs(PeerReads(m_motors, device, device)),
          dev1 \in Drops(device, Tracked(m_motors)) :
          \E wf \in ConfigureWrites(m_motors, device, device, dev1) :
          \E g \in {getMotors(m_motors, device, regs0, wf)} :
              /\ m_motors' = g.mm
              /\ device' = dev1
              /\ last' = [Started("getBrakeModes", g, regs0, wf, dev1) EXCEPT
                              !.sent = BroadcastLoop(g.motors, dev1),
                              !.ret = Len(g.motors)]
    /\ pc' = "returned"
    /\ UNCHANGED m_outputVelocity

\* ----------------------------------------------------------------- getAngle
\* Lines 88-106: the sum of the gear-corrected angles and the error count
RECURSIVE AngleLoop(_, _, _, _, _)
AngleLoop(k, motors, dev, regs, O) ==
    IF k > Len(motors) THEN [angle |-> Zero, errors |-> 0]
    ELSE LET d == DevPort(motors[k])
             rest == AngleLoop(k + 1, motors, dev, regs, O)
             result == Motor_getAngle(dev, regs, d)
             cartridge == Motor_getCartridge(dev, d)
         IN  IF result = INFINITY \/ cartridge = CartINVALID
             THEN [rest EXCEPT !.errors = @ + 1]
             ELSE [rest EXCEPT !.angle = RAdd(RMul(result, OutputRatio(cartridge, O)), @)]

\* Line 110: angle / (getSize() - errors)
AngleQuotient(angle, size, errors) == RDiv(angle, FromInt(size - errors))

\* Lines 85-111.  dev1 is the hardware while the members are read, dev2 the
\* hardware when getSize() probes it again.
getAngle ==
    /\ pc = "idle"
    /\ \E dev1 \in Drops(device, Tracked(m_motors)) :
          \E dev2 \in OneChange(dev1, Tracked(m_motors) \cup {1}) :
          \E regs0 \in RegInputs((Installed(device) \cup Installed(dev2))
                                      \cap Tracked(m_motors)) :
          \E wf \in WriteInputs(
                       \/ MayConfigure(m_motors, device, device) # {}
                             /\ is_installed(device, 1)
                       \/ MayConfigure(m_motors, device, dev2) # {}
                             /\ is_installed(dev2, 1),
                       {DevPort(m_motors[i].first) :
                           i \in MayConfigure(m_motors, device, device)}
                           \ Installed(dev1)) :
          \E g \in {getMotors(m_motors, device, regs0, wf)} :
          \E s \in {AngleLoop(1, g.motors, dev1, g.regs, m_outputVelocity)} :
          \E g2 \in {getMotors(g.mm, dev2, g.regs, [wf EXCEPT !.angle = {}])} :
          \E started \in {[Started("getAngle", g, regs0, wf, dev1) EXCEPT
                              !.errors = s.errors, !.val = s.angle]} :
          LET allErrors == s.errors = Len(g.motors)
              size == SizeLoop(g2.motors, dev2)
          IN  IF allErrors
              THEN /\ dev2 = dev1
                   /\ m_motors' = g.mm
                   /\ device' = dev1
                   /\ last' = [started EXCEPT !.angle = INFINITY]
              ELSE /\ m_motors' = g2.mm
                   /\ device' = dev2
                   /\ last' = [started EXCEPT
                                   !.divided = TRUE, !.size = size, !.devSize = dev2,
                                   !.cfg2 = g2.cfg, !.regs = g2.regs,
                                   !.angle = AngleQuotient(s.angle, size, s.errors)]
    /\ pc' = "returned"
    /\ UNCHANGED m_outputVelocity

\* Lines 85-111 as a function: what getAngle returns for the list mm on
\* hardware dev that stays as it is during the call, with registers regs
\* and every driver write accepted.
getAngleOf(mm, dev, regs, O) ==
    LET accepted == [brake |-> FALSE, angle |-> {}]
        g == getMotors(mm, dev, regs, accepted)
        s == AngleLoop(1, g.motors, dev, g.regs, O)
        g2 == getMotors(g.mm, dev, g.regs, accepted)
    IN  IF s.errors = Len(g.motors) THEN INFINITY
        ELSE AngleQuotient(s.angle, SizeLoop(g2.motors, dev), s.errors)

\* ------------------------------------------------------ addMotor/removeMotor
\* Mutant: the ports are compared with their signs
SamePortTracked(mm, port) == \E i \in 1..Len(mm) : mm[i].first = port

\* Lines 141-147: a tracked entry with the same absolute port
AlreadyTracked(mm, port) == \E i \in 1..Len(mm) : Abs(mm[i].first) = Abs(port)

\* Lines 139-153.  The pair stored holds the port as int8_t.
addMotor ==
    /\ pc = "idle"
    /\ \E port \in PortArgs :
          IF AlreadyTracked(m_motors, port)
          THEN /\ last' = [NoCall EXCEPT !.op = "addMotor", !.port = port,
                                         !.pre = m_motors, !.dev0 = device,
                                         !.devLoop = device,
                                         !.ret = INT_MAX, !.errno = "EEXIST"]
               /\ UNCHANGED m_motors
          ELSE /\ Len(m_motors) < MaxMotors
               /\ \E regs0 \in RegInputs(Installed(device) \cap Tracked(m_motors)),
                        wf \in WriteInputs(is_installed(device, 1), {}) :
                     \E c \in {configureMotor(port, m_motors, device, regs0, wf)} :
                         /\ m_motors' = Append(c.mm, Pair(ToInt8(port), c.ret = 0))
                         /\ last' = [NoCall EXCEPT !.op = "addMotor", !.port = port,
                                         !.pre = m_motors, !.dev0 = device,
                                         !.devLoop = device,
                                         !.regs0 = regs0, !.writeFails = wf,
                                         !.cfg = <<c.log>>, !.regs = c.regs,
                                         !.ret = c.ret]
    /\ pc' = "returned"
    /\ UNCHANGED <<m_outputVelocity, device>>

\* Mutant: the iterator also advances after an erase
RECURSIVE RemoveLoopSkipping(_, _, _)
RemoveLoopSkipping(it, mm, port) ==
    IF ~(it < Len(mm) + 1) THEN mm
    ELSE IF Abs(mm[it].first) = Abs(port)
         THEN RemoveLoopSkipping(it + 1, Erase(mm, it), port)
         ELSE RemoveLoopSkipping(it + 1, mm, port)

\* Lines 165-172.  After erase the iterator is used again without being
\* reassigned; a std::vector iterator is a pointer into storage that erase
\* does not reallocate, so it designates the element that moved into place.
RECURSIVE RemoveLoop(_, _, _)
RemoveLoop(it, mm, port) ==
    IF ~(it < Len(mm) + 1) THEN mm
    ELSE IF Abs(mm[it].first) = Abs(port)
         THEN RemoveLoop(it, Erase(mm, it), port)
         ELSE RemoveLoop(it + 1, mm, port)

\* Mutant: after an erase the scan starts again from begin()
RECURSIVE RemoveStepsRestarting(_, _, _)
RemoveStepsRestarting(it, mm, port) ==
    IF ~(it < Len(mm) + 1) THEN 0
    ELSE IF Abs(mm[it].first) = Abs(port)
         THEN 1 + RemoveStepsRestarting(1, Erase(mm, it), port)
         ELSE 1 + RemoveStepsRestarting(it + 1, mm, port)

\* Lines 166-172: the number of times the body of the while loop runs
RECURSIVE RemoveSteps(_, _, _)
RemoveSteps(it, mm, port) ==
    IF ~(it < Len(mm) + 1) THEN 0
    ELSE IF Abs(mm[it].first) = Abs(port)
         THEN 1 + RemoveSteps(it, Erase(mm, it), port)
         ELSE 1 + RemoveSteps(it + 1, mm, port)

\* Lines 163-173
removeMotor ==
    /\ pc = "idle"
    /\ \E port \in PortArgs :
          /\ m_motors' = RemoveLoop(1, m_motors, port)
          /\ last' = [NoCall EXCEPT !.op = "removeMotor", !.port = port,
                                    !.pre = m_motors, !.dev0 = device,
                                    !.devLoop = device,
                                    !.steps = RemoveSteps(1, m_motors, port)]
    /\ pc' = "returned"
    /\ UNCHANGED <<m_outputVelocity, device>>

\* ------------------------------------------------------------ the caller
\* The caller takes the result; the next call starts from the group's state.
Return ==
    /\ pc = "returned"
    /\ pc' = "idle"
    /\ last' = NoCall
    /\ UNCHANGED <<m_motors, m_outputVelocity, device>>

\* Between calls a motor is plugged in, unplugged, or its cartridge changes.
Hardware ==
    /\ pc = "idle"
    /\ \E p \in Ports, s \in DeviceStates :
          /\ device[p] # s
          /\ device' = [device EXCEPT ![p] = s]
    /\ UNCHANGED <<m_motors, m_outputVelocity, pc, last>>

\* Lines 7-15: the constructors track every motor given, flagged connected.
RECURSIVE SeqsUpTo(_, _)
SeqsUpTo(S, n) ==
    IF n = 0 THEN {<<>>}
    ELSE LET shorter == SeqsUpTo(S, n - 1)
         IN  shorter \cup {Append(q, x) : q \in shorter, x \in S}

MotorGroup(ports, outputVelocity) ==
    /\ m_motors = [k \in 1..Len(ports) |-> Pair(ports[k], TRUE)]
    /\ m_outputVelocity = outputVelocity

Init ==
    /\ \E ports \in SeqsUpTo(CtorPorts, MaxMotors), O \in OutputVelocities :
          MotorGroup(ports, O)
    /\ device \in [Ports -> DeviceStates]
    /\ pc = "idle"
    /\ last = NoCall

Next ==
    \/ move
    \/ brake
    \/ setBrakeMode
    \/ moveVelocity
    \/ getBrakeModes
    \/ isConnected
    \/ getAngle
    \/ setAngle
    \/ getSize
    \/ addMotor
    \/ removeMotor
    \/ Return
    \/ Hardware

Spec == Init /\ [][Next]_vars

\* ================================================================= claims
AggregationOps ==
    {"move", "moveVelocity", "brake", "setBrakeMode", "getAngle", "setAngle",
     "getSize", "isConnected", "getBrakeModes"}

\* Members k of the call's working set whose driver command or read is
\* answered while the loop runs (the port still holds a motor).
Answering == {k \in 1..Len(last.motors) : is_installed(last.devLoop, DevPort(last.motors[k]))}

\* C1: move, brake and setBrakeMode command every member of the working
\* set, and return 0 when at least one of the N members succeeded (M >= 1)
\* and INT_MAX when none did.
C1_SuccessIffAnyMember ==
    last.op \in {"move", "brake", "setBrakeMode"} =>
        LET N == Len(last.motors)
            M == Cardinality(Answering)
        IN  /\ Len(last.sent) = N
            /\ \A k \in 1..N : last.sent[k].port = last.motors[k]
            /\ \A k \in 1..N : (last.sent[k].res = 0) <=> (k \in Answering)
            /\ last.ret = IF M >= 1 THEN 0 ELSE INT_MAX

\* C1 witness: a brake on two members of which exactly one succeeded
C1_Witness ==
    /\ last.op = "brake"
    /\ Len(last.motors) = 2
    /\ Cardinality(Answering) = 1
    /\ last.ret = 0

\* C2: whenever getAngle evaluates its division the divisor
\* getSize() - errors is not zero, and when every member of the working set
\* errors it returns the positive-infinity sentinel.
C2_NeverDividesByZero ==
    last.op = "getAngle" =>
        /\ last.divided => last.size - last.errors # 0
        /\ last.errors = Len(last.motors) => last.angle = INFINITY

\* Members of getAngle's working set that yield a valid reading: the angle
\* read is not INFINITY and the cartridge is not INVALID.
Contributing ==
    {k \in Answering : Motor_getCartridge(last.devLoop, DevPort(last.motors[k])) # CartINVALID}

\* Sum over the members in K of angle * outputVelocity / nominalVelocity
RECURSIVE CorrectedSum(_)
CorrectedSum(K) ==
    IF K = {} THEN Zero
    ELSE LET k == CHOOSE x \in K : TRUE
             d == DevPort(last.motors[k])
         IN  RAdd(Norm(last.regsLoop[d][1] * m_outputVelocity,
                       last.regsLoop[d][2] * last.devLoop[d]),
                  CorrectedSum(K \ {k}))

\* C3: getAngle returns the mean of the gear-corrected angles of the
\* members that yielded a valid reading: their sum divided by their number.
C3_MeanOfValidMembers ==
    (last.op = "getAngle" /\ Contributing # {}) =>
        last.angle = RDiv(CorrectedSum(Contributing), FromInt(Cardinality(Contributing)))

\* C3 holds of the calls during which the hardware did not change.
C3_StableHardware ==
    (last.op = "getAngle" /\ Contributing # {}
        /\ last.devLoop = last.dev0 /\ last.devSize = last.dev0) =>
        last.angle = RDiv(CorrectedSum(Contributing), FromInt(Cardinality(Contributing)))

\* C4: addMotor(port) with an entry of the same absolute port already
\* tracked returns INT_MAX with errno EEXIST, leaves m_motors as it was and
\* does not run configureMotor.
C4_DuplicateAddRejected ==
    (last.op = "addMotor"
        /\ \E i \in 1..Len(last.pre) : Abs(last.pre[i].first) = Abs(last.port)) =>
        /\ last.ret = INT_MAX
        /\ last.errno = "EEXIST"
        /\ m_motors = last.pre
        /\ last.cfg = <<>>

\* C4 witness: addMotor(-1) rejected while port 1 is tracked
C4_Witness ==
    /\ last.op = "addMotor"
    /\ last.port = -1
    /\ \E i \in 1..Len(last.pre) : last.pre[i].first = 1
    /\ last.ret = INT_MAX
    /\ m_motors = last.pre

\* The entries of mm whose absolute port is not |port|, in order
Others(mm, port) == SelectSeq(mm, LAMBDA pair : Abs(pair.first) # Abs(port))

\* C5: removeMotor(port) deletes every entry whose absolute port is |port|
\* and keeps the others with their flags and order; so it leaves the list
\* alone when the port is absent, and a second removeMotor(port) changes
\* nothing more.
C5_RemoveDeletesAllMatches ==
    last.op = "removeMotor" =>
        /\ m_motors = Others(last.pre, last.port)
        /\ (Others(last.pre, last.port) = last.pre) => m_motors = last.pre
        /\ RemoveLoop(1, m_motors, last.port) = m_motors

\* C5 witness: two entries of the same absolute port removed in one call
C5_Witness ==
    /\ last.op = "removeMotor"
    /\ Len(last.pre) = 2
    /\ m_motors = <<>>

\* configureMotor calls made during the call, in order
AllConfigured == last.cfg \o last.cfg2

\* No two entries of mm have the same absolute port
NoDuplicates(mm) ==
    \A i, j \in 1..Len(mm) : i # j => Abs(mm[i].first) # Abs(mm[j].first)

\* C6: a tracked member flagged disconnected whose port holds a motor when
\* an aggregation call probes it is reconfigured exactly once during that
\* call, while its flag still says disconnected (stated for groups that
\* track every port once).
C6_ReconfiguredExactlyOnce ==
    (last.op \in AggregationOps /\ NoDuplicates(last.pre)) =>
        \A i \in 1..Len(last.pre) :
            (~last.pre[i].second /\ is_installed(last.dev0, DevPort(last.pre[i].first))) =>
                /\ Cardinality({n \in 1..Len(AllConfigured) : AllConfigured[n].idx = i}) = 1
                /\ \A n \in 1..Len(AllConfigured) :
                       AllConfigured[n].idx = i => ~AllConfigured[n].flagsAt[i]

\* C6 holds of every aggregation call other than getAngle.
C6_SingleWorkingSet ==
    (last.op \in AggregationOps \ {"getAngle"}) =>
        \A i \in 1..Len(last.pre) :
            (~last.pre[i].second /\ is_installed(last.dev0, DevPort(last.pre[i].first))) =>
                Cardinality({n \in 1..Len(AllConfigured) : AllConfigured[n].idx = i}) = 1

\* The peers of a configureMotor(port) call with a valid reading: tracked
\* entries of another absolute port whose motor is connected with a valid
\* cartridge.
ValidPeers(port, dev) ==
    {i \in 1..Len(last.pre) :
        /\ Abs(last.pre[i].first) # Abs(port)
        /\ is_installed(dev, DevPort(last.pre[i].first))
        /\ dev[DevPort(last.pre[i].first)] # CartINVALID}

\* Sum over the peers in K of angle * outputVelocity / peerNominalVelocity
RECURSIVE PeerOutputSum(_, _, _)
PeerOutputSum(K, dev, regs) ==
    IF K = {} THEN Zero
    ELSE LET i == CHOOSE x \in K : TRUE
             d == DevPort(last.pre[i].first)
         IN  RAdd(Norm(regs[d][1] * m_outputVelocity, regs[d][2] * dev[d]),
                  PeerOutputSum(K \ {i}, dev, regs))

\* The angle C7 expects a configureMotor call to write
ExpectedConfigAngle(c, dev) ==
    LET K == ValidPeers(c.port, dev)
    IN  IF K = {} THEN Zero
        ELSE RMul(RDiv(PeerOutputSum(K, dev, c.regsAt), FromInt(Cardinality(K))),
                  Norm(c.cartridge, m_outputVelocity))

\* C7: the angle configureMotor writes to a unit with a valid cartridge is
\* the mean of the other connected members' angles in output-shaft units,
\* converted into the unit's own gear frame (zero when there is no peer).
C7_ConfiguredAngleGearCorrected ==
    /\ last.op \in AggregationOps \cup {"addMotor"} =>
          \A n \in 1..Len(last.cfg) :
              (last.cfg[n].result = 0 /\ last.cfg[n].cartridge # CartINVALID) =>
                  last.cfg[n].angle = ExpectedConfigAngle(last.cfg[n], last.dev0)
    /\ last.op = "getAngle" =>
          \A n \in 1..Len(last.cfg2) :
              (last.cfg2[n].result = 0 /\ last.cfg2[n].cartridge # CartINVALID) =>
                  last.cfg2[n].angle = ExpectedConfigAngle(last.cfg2[n], last.devSize)

\* Members of the working set whose cartridge reads valid during the loop
Rated == SelectSeq(last.motors,
             LAMBDA port : Motor_getCartridge(last.devCart, DevPort(port)) # CartINVALID)

\* C8: moveVelocity(v) sends each member of the working set with a
\* cartridge rating R the velocity v * R / O, one command per member.
C8_VelocityScaledByRating ==
    last.op = "moveVelocity" =>
        /\ Len(last.sent) = Len(Rated)
        /\ \A k \in 1..Len(Rated) :
               /\ last.sent[k].port = Rated[k]
               /\ last.sent[k].val[1] * m_outputVelocity * last.val[2]
                      = last.val[1] * last.devCart[DevPort(Rated[k])] * last.sent[k].val[2]

\* C8 witness: two members of different ratings sent different velocities
C8_Witness ==
    /\ last.op = "moveVelocity"
    /\ Len(last.sent) = 2
    /\ last.devCart[DevPort(last.sent[1].port)] # last.devCart[DevPort(last.sent[2].port)]
    /\ last.sent[1].val # last.sent[2].val

\* C9: no two entries of m_motors have the same absolute port.
C9_PortsUnique == NoDuplicates(m_motors)

\* The hardware at the call's last working-set computation
LastProbe == IF last.divided THEN last.devSize ELSE last.dev0

ProbedConnected(i) == is_installed(LastProbe, DevPort(m_motors[i].first))

\* C10 as claimed: after an aggregation call every flag equals the result
\* of the probe made on that member during the call.
C10_FlagEqualsProbe ==
    last.op \in AggregationOps =>
        \A i \in 1..Len(m_motors) : m_motors[i].second = ProbedConnected(i)

\* The flag of entry i before the call's last working-set computation
FlagAfterFirst(i) ==
    /\ is_installed(last.dev0, DevPort(last.pre[i].first))
    /\ \/ last.pre[i].second
       \/ \E n \in 1..Len(last.cfg) : last.cfg[n].idx = i /\ last.cfg[n].ret = 0

FlagBeforeLast(i) == IF last.divided THEN FlagAfterFirst(i) ELSE last.pre[i].second

LastConfigured == IF last.divided THEN last.cfg2 ELSE last.cfg

\* C10 amended: after an aggregation call a flag says connected exactly
\* when, in the call's last working-set computation, the member probed as
\* connected and was either already flagged connected or reconfigured with
\* configureMotor returning 0.
C10_FlagFollowsProbeAndConfigure ==
    last.op \in AggregationOps =>
        /\ Len(m_motors) = Len(last.pre)
        /\ \A i \in 1..Len(m_motors) :
               m_motors[i].second =
                   (/\ ProbedConnected(i)
                    /\ \/ FlagBeforeLast(i)
                       \/ \E n \in 1..Len(LastConfigured) :
                              LastConfigured[n].idx = i /\ LastConfigured[n].ret = 0)

\* C10 witness: a member found connected on a reconnection edge keeps the
\* disconnected flag because configureMotor returned non-zero
C10_Witness ==
    /\ last.op = "move"
    /\ \E i \in 1..Len(m_motors) :
          /\ ~last.pre[i].second
          /\ ProbedConnected(i)
          /\ \E n \in 1..Len(last.cfg) : last.cfg[n].idx = i /\ last.cfg[n].ret # 0
          /\ ~m_motors[i].second

\* ------------------------------------------------------------------- C11
\* Entries of the list as it was when the call started whose port held a
\* motor at the call's probe
ConnectedAtProbe ==
    {i \in 1..Len(last.pre) : is_installed(last.dev0, DevPort(last.pre[i].first))}

\* Entry i was put in the working set of the call's first getMotors
InWorkingSet(i) ==
    /\ i \in ConnectedAtProbe
    /\ \/ last.pre[i].second
       \/ \E n \in 1..Len(last.cfg) : last.cfg[n].idx = i /\ last.cfg[n].ret = 0

\* C11 as claimed: getSize returns the number of tracked members that are
\* physically connected at the time of the call (stated for hardware that
\* does not change while the call runs).
C11_SizeCountsConnected ==
    (last.op = "getSize" /\ last.devLoop = last.dev0) =>
        last.ret = Cardinality(ConnectedAtProbe)

\* C11 amended: getSize returns the number of members of the working set
\* computed by this call (probed connected, and already flagged connected
\* or reconfigured with configureMotor returning 0) that report connected
\* when the counting loop polls them.
C11_SizeCountsWorkingSet ==
    last.op = "getSize" =>
        last.ret = Cardinality({i \in 1..Len(last.pre) :
                                   /\ InWorkingSet(i)
                                   /\ is_installed(last.devLoop, DevPort(last.pre[i].first))})

\* C11 witness: getSize on a group with a connected member on a
\* reconnection edge (counted after a successful reconfiguration) and a
\* member unplugged before the counting loop reaches it
C11_Witness ==
    /\ last.op = "getSize"
    /\ last.ret = 1
    /\ Len(last.motors) = 2
    /\ \E i \in 1..Len(last.pre) : ~last.pre[i].second /\ InWorkingSet(i)

\* ------------------------------------------------------------------- C12
\* The commands that return an int status
IntCommands == {"move", "moveVelocity", "brake", "setBrakeMode", "setAngle"}

\* The ports of the entries of mm, in order
PortsOf(mm) == [i \in 1..Len(mm) |-> mm[i].first]

\* No tracked member's port held a motor when the call probed it
AllDisconnected == ConnectedAtProbe = {}

\* Entry i was flagged disconnected, is found connected by the call, and
\* every driver operation on its motor succeeds during the call
ReconnectedAndWorking(i) ==
    LET d == DevPort(last.pre[i].first)
    IN  /\ ~last.pre[i].second
        /\ is_installed(last.dev0, d)
        /\ Motor_getCartridge(last.dev0, d) # CartINVALID
        /\ ~last.writeFails.brake
        /\ d \notin last.writeFails.angle
        /\ is_installed(last.devLoop, d)

\* C12: while every tracked member is disconnected, each command returns
\* INT_MAX, getAngle returns INFINITY, no member is commanded and the
\* tracked ports stay as they were; and a move issued when a member
\* flagged disconnected is connected again, with its driver operations
\* succeeding, commands that member, flags it connected and returns 0.
C12_FailsThenRecovers ==
    /\ (last.op \in AggregationOps /\ AllDisconnected) =>
           /\ last.op \in IntCommands => last.ret = INT_MAX
           /\ last.op = "getAngle" => last.angle = INFINITY
           /\ last.motors = <<>> /\ last.sent = <<>>
           /\ PortsOf(m_motors) = PortsOf(last.pre)
    /\ last.op = "move" =>
           \A i \in 1..Len(last.pre) :
               ReconnectedAndWorking(i) =>
                   /\ last.ret = 0
                   /\ m_motors[i].second
                   /\ \E k \in 1..Len(last.sent) :
                          last.sent[k].port = last.pre[i].first /\ last.sent[k].res = 0

\* C12 witness: a group whose members were all flagged disconnected gets
\* one member back, and move commands it and returns 0
C12_Witness ==
    /\ last.op = "move"
    /\ Len(last.pre) = 2
    /\ \A i \in 1..Len(last.pre) : ~last.pre[i].second
    /\ \E i \in 1..Len(last.pre) : ReconnectedAndWorking(i)
    /\ Len(last.motors) = 1
    /\ last.ret = 0

\* ------------------------------------------------------------------- C13
\* C13: move, moveVelocity, brake, setBrakeMode, setAngle and addMotor
\* return 0 or INT_MAX and nothing else.
C13_ReturnsZeroOrIntMax ==
    last.op \in IntCommands \cup {"addMotor"} => last.ret \in {0, INT_MAX}

\* ------------------------------------------------------------------- C14
\* Entry i was reconfigured in the call's first getMotors and every step of
\* it succeeded: brake-mode copy, cartridge read, angle set
PassedReconfiguration(i) ==
    \E n \in 1..Len(last.cfg) :
        /\ last.cfg[n].idx = i
        /\ last.cfg[n].brakeOk
        /\ last.cfg[n].cartridge # CartINVALID
        /\ last.cfg[n].result = 0

\* The ports, in list order from entry i on, of the tracked members that
\* probe connected and were flagged connected or passed reconfiguration
RECURSIVE ReachableFrom(_)
ReachableFrom(i) ==
    IF i > Len(last.pre) THEN <<>>
    ELSE IF i \in ConnectedAtProbe /\ (last.pre[i].second \/ PassedReconfiguration(i))
         THEN <<last.pre[i].first>> \o ReachableFrom(i + 1)
         ELSE ReachableFrom(i + 1)

\* C14: the working set of an aggregation call is exactly the tracked
\* members that probe connected and were already flagged connected or
\* passed every step of reconfiguration; commands go to its members only.
C14_WorkingSetIsReachable ==
    last.op \in AggregationOps =>
        /\ last.motors = ReachableFrom(1)
        /\ \A k \in 1..Len(last.sent) :
               \E j \in 1..Len(ReachableFrom(1)) : ReachableFrom(1)[j] = last.sent[k].port

\* ------------------------------------------------------------------- C15
\* The tracked members other than the configured port whose brake mode
\* reads as valid, by position in the list
BrakePeers(port) ==
    {k \in 1..Len(last.pre) :
        /\ Abs(last.pre[k].first) # Abs(port)
        /\ Motor_hasBrakeMode(last.dev0, DevPort(last.pre[k].first))}

FirstOf(S) == CHOOSE k \in S : \A j \in S : k <= j

\* C15: configureMotor reads the brake mode from the port of the first
\* other tracked member that has a valid one and writes it onto the unit
\* being configured; it never writes a peer's brake mode.
C15_BrakeModeCopiedToUnit ==
    last.op \in AggregationOps \cup {"addMotor"} =>
        \A n \in 1..Len(last.cfg) :
            LET c == last.cfg[n]
                peers == BrakePeers(c.port)
            IN  /\ peers # {} =>
                       /\ c.brakeFrom = <<DevPort(last.pre[FirstOf(peers)].first)>>
                       /\ c.brakeTo = <<DevPort(c.port)>>
                /\ \A k \in peers : c.brakeTo # <<DevPort(last.pre[k].first)>>

\* ------------------------------------------------------------------- C16
\* C16: configureMotor returns 0 exactly when every step succeeded: the
\* brake-mode write, the cartridge read and the final setAngle.
C16_ZeroIffEveryStepSucceeded ==
    \A n \in 1..Len(AllConfigured) :
        LET c == AllConfigured[n]
        IN  (c.ret = 0) <=> (c.brakeOk /\ c.cartridge # CartINVALID /\ c.result = 0)

\* ------------------------------------------------------------------- C17
\* C17: addMotor with a port that is not tracked appends one entry for that
\* port at the end of the list, flagged connected exactly when every step
\* of its reconfiguration succeeded (stated for ports that fit an int8).
C17_AppendsWithReconfigurationFlag ==
    (/\ last.op = "addMotor"
     /\ ~AlreadyTracked(last.pre, last.port)
     /\ ToInt8(last.port) = last.port) =>
        LET c == last.cfg[1]
        IN  m_motors = Append(last.pre,
                              Pair(last.port,
                                   c.brakeOk /\ c.cartridge # CartINVALID /\ c.result = 0))

\* ------------------------------------------------------------------- C18
\* C18: an aggregation call leaves the sequence of tracked ports as it
\* was: no entry is added, removed, reordered or given another port,
\* whatever the members' connection states during the call.
C18_AggregationKeepsPorts ==
    last.op \in AggregationOps => PortsOf(m_motors) = PortsOf(last.pre)

\* C18 witness: a call during which one member was found disconnected and
\* another reconfigured, on a group of two
C18_Witness ==
    /\ last.op \in AggregationOps
    /\ Len(last.pre) = 2
    /\ last.cfg # <<>>
    /\ \E i \in 1..Len(last.pre) : last.pre[i].second /\ i \notin ConnectedAtProbe
    /\ PortsOf(m_motors) = PortsOf(last.pre)

\* ------------------------------------------------------------------- C19
\* Every member of setAngle's working set read a valid cartridge, accepted
\* the command, and the working set of a getAngle that follows at once, on
\* the same hardware, is the same.
AllMembersSet ==
    /\ last.op = "setAngle"
    /\ last.motors # <<>>
    /\ Len(last.sent) = Len(last.motors)
    /\ \A k \in 1..Len(last.sent) : last.sent[k].res = 0
    /\ getMotors(m_motors, device, last.regs, [brake |-> FALSE, angle |-> {}]).motors
           = last.motors

\* C19: setAngle(a) writes a * nominal / outputVelocity to each member it
\* commands, and when every member of the working set has a valid
\* cartridge, accepts and reads back what was written, a getAngle that
\* follows at once returns a.
C19_SetThenGetReturnsAngle ==
    last.op = "setAngle" =>
        /\ \A k \in 1..Len(last.sent) :
               last.sent[k].val =
                   RMul(last.val,
                        Norm(last.devCart[DevPort(last.sent[k].port)], m_outputVelocity))
        /\ AllMembersSet =>
               getAngleOf(m_motors, device, last.regs, m_outputVelocity) = last.val

\* C19 witness: setAngle on two members of different ratings, each written
\* a different value, after which getAngle returns the angle that was set
C19_Witness ==
    /\ AllMembersSet
    /\ Len(last.sent) = 2
    /\ last.sent[1].val # last.sent[2].val
    /\ getAngleOf(m_motors, device, last.regs, m_outputVelocity) = last.val

\* ------------------------------------------------------------------- C20
\* The positions in the working set of the members commanded by the loop:
\* those whose cartridge read as valid
Commanded ==
    {k \in 1..Len(last.motors) :
        Motor_getCartridge(last.devCart, DevPort(last.motors[k])) # CartINVALID}

\* C20: moveVelocity and setAngle command exactly the members of the
\* working set whose cartridge reads valid, each of them whatever happened
\* to the members before it, and return 0 when at least one of those
\* members accepted the command and INT_MAX otherwise (so INT_MAX when
\* every cartridge reads INVALID).
C20_InvalidCartridgeSkipped ==
    last.op \in {"moveVelocity", "setAngle"} =>
        /\ Len(last.sent) = Cardinality(Commanded)
        /\ \A k \in 1..Len(last.sent) :
               /\ last.sent[k].port = Rated[k]
               /\ (last.sent[k].res = 0) <=>
                      is_installed(last.devLoop, DevPort(last.sent[k].port))
        /\ (last.ret = 0) <=>
               \E k \in Commanded : is_installed(last.devLoop, DevPort(last.motors[k]))
        /\ last.ret \in {0, INT_MAX}

\* C20 witness: the first member's cartridge reads INVALID, it is skipped,
\* and the second member accepts the command: the call returns 0
C20_Witness ==
    /\ last.op = "moveVelocity"
    /\ Len(last.motors) = 2
    /\ 1 \notin Commanded
    /\ Len(last.sent) = 1
    /\ last.sent[1].port = last.motors[2]
    /\ last.sent[1].res = 0
    /\ last.ret = 0

\* ------------------------------------------------------------------- C21
\* The configureMotor calls of one working-set computation are made on
\* members at strictly increasing positions of the list: each member is
\* reconfigured at most once, by getMotors and by nothing below it.
OncePerMember(cfg) ==
    /\ Len(cfg) <= Len(last.pre)
    /\ \A n \in 1..Len(cfg) : cfg[n].idx \in 1..Len(last.pre)
    /\ \A n, m \in 1..Len(cfg) : n < m => cfg[n].idx < cfg[m].idx

\* C21: every operation finishes in a number of steps bounded by the
\* length of the list: a working-set computation calls configureMotor at
\* most once per tracked member and configureMotor starts no further
\* working-set computation or reconfiguration, addMotor runs configureMotor
\* once, and the loop of removeMotor runs once per tracked entry.
C21_BoundedSteps ==
    /\ last.op \in AggregationOps =>
           /\ OncePerMember(last.cfg)
           /\ OncePerMember(last.cfg2)
           /\ Len(last.motors) <= Len(last.pre)
           /\ Len(last.sent) <= Len(last.motors)
    /\ last.op = "addMotor" => Len(last.cfg) <= 1 /\ last.cfg2 = <<>>
    /\ last.op = "removeMotor" =>
           /\ last.steps <= Len(last.pre)
           /\ last.cfg = <<>> /\ last.cfg2 = <<>>

\* C21 witness: removeMotor erases both entries of a group that tracks one
\* port twice, the iterator staying where it is after each erase
C21_Witness ==
    /\ last.op = "removeMotor"
    /\ Len(last.pre) = 2
    /\ m_motors = <<>>
    /\ last.steps = 2

\* ------------------------------------------------------------------- C22
\* C22 as claimed: isConnected returns 1 exactly when at least one tracked
\* member is physically connected at the time of the call (stated for
\* hardware that does not change while the call runs).
C22_ConnectedIffAnyTracked ==
    (last.op = "isConnected" /\ last.devLoop = last.dev0) =>
        last.ret = IF ConnectedAtProbe # {} THEN 1 ELSE 0

\* C22 amended: isConnected returns 1 exactly when a member of the working
\* set computed by this call (probed connected, and already flagged
\* connected or reconfigured with configureMotor returning 0) reports
\* connected when the loop polls it, and 0 otherwise.
C22_ConnectedIffAnyInWorkingSet ==
    last.op = "isConnected" =>
        last.ret = IF \E i \in 1..Len(last.pre) :
                          /\ InWorkingSet(i)
                          /\ is_installed(last.devLoop, DevPort(last.pre[i].first))
                   THEN 1 ELSE 0

\* C22 witness: the first member of the working set is unplugged before
\* the loop polls it, the second was reconfigured on a reconnection edge
\* and reports connected: isConnected returns 1
C22_Witness ==
    /\ last.op = "isConnected"
    /\ Len(last.motors) = 2
    /\ ~is_installed(last.devLoop, DevPort(last.motors[1]))
    /\ ~last.pre[2].second /\ InWorkingSet(2)
    /\ last.ret = 1

\* ------------------------------------------------------------------- C23
\* C23: configureMotor leaves m_motors as it found it, ports and flags,
\* although it probes every peer; so addMotor keeps the entries that were
\* tracked, with their flags, in front of the one it appends, and changes
\* nothing when the port is already tracked.
C23_ConfigureKeepsList ==
    /\ \A n \in 1..Len(AllConfigured) :
           AllConfigured[n].mmAfter = AllConfigured[n].mmAt
    /\ last.op = "addMotor" =>
           IF AlreadyTracked(last.pre, last.port)
           THEN m_motors = last.pre
           ELSE /\ Len(m_motors) = Len(last.pre) + 1
                /\ SubSeq(m_motors, 1, Len(last.pre)) = last.pre

\* C23 witness: addMotor reconfigures the new port while a peer flagged
\* connected is unplugged; configureMotor probes the peer, finds it
\* disconnected, and the peer's flag still says connected afterwards
C23_Witness ==
    /\ last.op = "addMotor"
    /\ Len(m_motors) = Len(last.pre) + 1
    /\ \E i \in 1..Len(last.pre) :
          /\ last.pre[i].second
          /\ ~is_installed(last.dev0, DevPort(last.pre[i].first))
          /\ m_motors[i] = last.pre[i]

====
